---- MODULE Spec2Model ----
(***************************************************************************)
(* The scheduling model of scheduler-lco-ilp: the time grid and the        *)
(* observation set of common.py / input_parameters.py, and schedule() of   *)
(* lco_solver.py (decision variables, constraint types 1 and 2, objective, *)
(* solve, decoding).                                                       *)
(*                                                                         *)
(* Numbers.  Durations are whole seconds.  Priorities are kept exactly, in *)
(* units of 1/PScale; completions in units of 1/CScale; the metric score   *)
(* of a start slot in units of 1/MScale.                                   *)
(***************************************************************************)
EXTENDS Integers, Sequences, FiniteSets, TLC

\* ------------------------------------------------------------------------
\* Bounds of the model
\* ------------------------------------------------------------------------
MaxObs == 2
MaxSlotsPerSite == 2
MaxCand == 2

\* ------------------------------------------------------------------------
\* Units
\* ------------------------------------------------------------------------
PScale == 6400
CScale == 20
MScale == 8

\* ------------------------------------------------------------------------
\* Program constants
\* ------------------------------------------------------------------------
\* class Resource(IntEnum): GN = 0, GS = 1
Resource == {0, 1}

\* TimeSlots.__init__ default timeslot_length = 5 * 60
DefaultTimeslotLength == 300

\* TimeSlots.__init__ default num_timeslots_per_site = 6
DefaultNumTimeslotsPerSite == 6

\* TS.metric_score default 1.0, in units of 1/MScale
DefaultMetricScore == 8

\* the bands of Observations.params
Bands == {"1", "2", "3", "4"}

\* allocated_time=None
None == {}

VARIABLES
    pc,                      \* position of the caller
    example,                 \* 0, or the number of the example being run
    timeslot_length,         \* TimeSlots.timeslot_length
    num_timeslots_per_site,  \* TimeSlots.num_timeslots_per_site
    timeslots,               \* TimeSlots.timeslots
    num_obs,                 \* Observations.num_obs
    band,                    \* Observations.band
    start_slot_idx,          \* Observations.start_slot_idx (start_slots)
    used_time,               \* Observations.used_time
    allocated_time,          \* Observations.allocated_time
    obs_time,                \* Observations.obs_time
    completed,               \* Observations.completed
    priority,                \* Observations.priority
    y,                       \* solution values of the decision variables
    final_schedule,          \* the Schedule returned by schedule()
    schedule_score,          \* the Score returned by schedule()
    solver_status,           \* what solver.Solve() returned ("none" before)
    error,                   \* the exception that ended the last call, or "none"
    call,                    \* the last add_obs / get_time_slot call: its arguments
    lookup,                  \* what get_time_slot returned
    unschedulable,           \* what print_schedule reported as unschedulable
    printed                  \* the schedule lines print_schedule of lco_solver.py printed

vars == <<pc, example, timeslot_length, num_timeslots_per_site, timeslots,
          num_obs, band, start_slot_idx, used_time, allocated_time, obs_time,
          completed, priority, y, final_schedule, schedule_score,
          solver_status, error, call, lookup, unschedulable, printed>>

gridVars == <<timeslot_length, num_timeslots_per_site, timeslots>>
obsVars == <<num_obs, band, start_slot_idx, used_time, allocated_time, obs_time>>
outVars == <<y, final_schedule, schedule_score>>
callVars == <<error, call, lookup, unschedulable, printed>>

\* ------------------------------------------------------------------------
\* Arithmetic helpers
\* ------------------------------------------------------------------------
\* int(a / b) for a >= 0, b > 0
IntDiv(a, b) == a \div b

\* math.ceil(a / b) for a >= 0, b > 0
Ceil(a, b) == (a + b - 1) \div b

\* numpy.append on an array indexed 0 .. n-1
Append0(f, n, v) == [i \in 0..n |-> IF i < n THEN f[i] ELSE v]

\* ------------------------------------------------------------------------
\* common.py: TimeSlot, TimeSlots, TS
\* ------------------------------------------------------------------------
TimeSlot(resource, start_time) == [resource |-> resource, start_time |-> start_time]

\* a grid whose clock runs on from one resource to the next
TimeSlotsInit_RunningClock(length, n) ==
    [g \in 0..(Cardinality(Resource) * n - 1) |-> TimeSlot(g \div n, g * length)]

\* TimeSlots.__init__: for r in Resource, for idx in range(n): append
TimeSlotsInit(length, n) ==
    [g \in 0..(Cardinality(Resource) * n - 1) |-> TimeSlot(g \div n, (g % n) * length)]

\* Python's list[k] on a list held as a function on 0..len-1: a negative k
\* counts from the end, anything outside [-len, len) is an IndexError; the
\* result is the set holding the element, or the empty set on the error
ListGet(list, k) ==
    LET len == Cardinality(DOMAIN list)
    IN  IF 0 <= k /\ k < len THEN {list[k]}
        ELSE IF -len <= k /\ k < 0 THEN {list[k + len]}
        ELSE {}

\* TimeSlots.get_time_slot(resource, index), on the grid slots with n per site
get_time_slot(slots, n, resource, index) == ListGet(slots, resource * n + index)

TS(timeslot_idx, metric_score) ==
    [timeslot_idx |-> timeslot_idx, metric_score |-> metric_score]

TS1(timeslot_idx) == TS(timeslot_idx, DefaultMetricScore)

\* ------------------------------------------------------------------------
\* common.py: Observations.__init__ (the priority parameters)
\* m1 is kept in units of 1/16; b1, m2, b2, xb0, xc0 in units of 1/10;
\* xb in units of 1/CScale.
\* ------------------------------------------------------------------------
\* m2 = {'3': 1.0, '2': 6.0, '1': 20.0}
m2Jump == [b \in {"3", "2", "1"} |-> CASE b = "3" -> 10 [] b = "2" -> 60 [] b = "1" -> 200]

\* xb = 0.8
xbBreak == 16

\* b1 = 0.2, the running offset before the first band
b1Start == 2

\* the table the loop starts from.  The loop overwrites m1, m2, b1, b2 and xb
\* of the bands 3, 2, 1 before any use, so their literal start values (1.406,
\* 2.0, 0.50, 0.5) are not kept: only xb0 = xc0 = 0.0 and the row of band 4
\* (all 0.0, xb 0.8) survive the loop.
ParamsInitial ==
    [b \in Bands |->
        IF b = "4"
        THEN [m1 |-> 0, b1 |-> 0, m2 |-> 0, b2 |-> 0, xb |-> xbBreak, xb0 |-> 0, xc0 |-> 0]
        ELSE [m1 |-> 0, b1 |-> 0, m2 |-> 0, b2 |-> 0, xb |-> xbBreak, xb0 |-> 0, xc0 |-> 0]]

\* a loop that steps the running offset by the jump alone: b1 += m2[band]
RECURSIVE ParamsLoop_ShortStep(_, _, _)
ParamsLoop_ShortStep(order, b1, params) ==
    IF order = <<>> THEN params
    ELSE LET bnd == Head(order)
             b2 == b1 + 50 - m2Jump[bnd]
             m1 == (((m2Jump[bnd] * xbBreak) \div CScale + b2) * CScale * CScale * 16)
                       \div (10 * xbBreak * xbBreak)
         IN  ParamsLoop_ShortStep(Tail(order), b1 + m2Jump[bnd],
                        [params EXCEPT ![bnd] =
                            [m1 |-> m1, b1 |-> b1, m2 |-> m2Jump[bnd], b2 |-> b2,
                             xb |-> xbBreak, xb0 |-> 0, xc0 |-> 0]])

\* one pass of "for band in ['3', '2', '1']"
RECURSIVE ParamsLoop(_, _, _)
ParamsLoop(order, b1, params) ==
    IF order = <<>> THEN params
    ELSE LET bnd == Head(order)
             b2 == b1 + 50 - m2Jump[bnd]
             m1 == (((m2Jump[bnd] * xbBreak) \div CScale + b2) * CScale * CScale * 16)
                       \div (10 * xbBreak * xbBreak)
         IN  ParamsLoop(Tail(order), b1 + m2Jump[bnd] + b2,
                        [params EXCEPT ![bnd] =
                            [m1 |-> m1, b1 |-> b1, m2 |-> m2Jump[bnd], b2 |-> b2,
                             xb |-> xbBreak, xb0 |-> 0, xc0 |-> 0]])

params == ParamsLoop(<<"3", "2", "1">>, b1Start, ParamsInitial)

\* ------------------------------------------------------------------------
\* common.py: Observations._calculate_completion, calculate_priority
\* ------------------------------------------------------------------------
\* numpy's not-a-number, the quotient 0 / 0: it is not 0 and no "<" holds of
\* it, which is how this value, above every completion, compares
NaN == 1000000

\* time = (used + obs) / allocated; completed = where(time > 1, 1, time);
\* numpy divides by zero without raising: 0 / 0 is nan, x / 0 is inf for x > 0
CalculateCompletion(used, obs, allocated) ==
    LET time == ((used + obs) * CScale) \div allocated
    IN  IF allocated = 0
        THEN IF used + obs = 0 THEN NaN ELSE CScale
        ELSE IF (used + obs) > allocated /\ allocated > 0 THEN CScale ELSE time

\* b2 = params['b2'] + params['xb0'] + params['b1'], the intercept of the
\* second piece
Intercept2(sband) == params[sband].b2 + params[sband].xb0 + params[sband].b1

\* m1 * completed ** 2 + b1, in units of 1/PScale
Quadratic(sband, c) ==
    params[sband].m1 * c * c + params[sband].b1 * (PScale \div 10)

\* a second piece that takes params['b2'] alone as its intercept
Linear_OwnIntercept(sband, c) ==
    params[sband].m2 * c * (PScale \div (10 * CScale)) + params[sband].b2 * (PScale \div 10)

\* m2 * completed + b2, in units of 1/PScale
Linear(sband, c) ==
    params[sband].m2 * c * (PScale \div (10 * CScale)) + Intercept2(sband) * (PScale \div 10)

\* a completed observation valued at the intercept, without the slope term
AtOne_NoSlope(sband) ==
    Intercept2(sband) * (PScale \div 10) + params[sband].xc0 * (PScale \div 10)

\* m2 * 1.0 + b2 + xc0, in units of 1/PScale
AtOne(sband) ==
    params[sband].m2 * (PScale \div 10) + Intercept2(sband) * (PScale \div 10)
        + params[sband].xc0 * (PScale \div 10)

\* a metric without the case of completion 0
Metric_NoZeroCase(sband, c) ==
    IF c < params[sband].xb THEN Quadratic(sband, c)
    ELSE IF c < CScale THEN Linear(sband, c)
    ELSE AtOne(sband)

\* the piecewise metric of one observation, in units of 1/PScale
Metric(sband, c) ==
    IF c = 0 THEN 0
    ELSE IF c < params[sband].xb THEN Quadratic(sband, c)
    ELSE IF c < CScale THEN Linear(sband, c)
    ELSE AtOne(sband)

CompletedOf(n, used, obs, allocated) ==
    [i \in 0..(n - 1) |-> CalculateCompletion(used[i], obs[i], allocated[i])]

PriorityOf(n, bnd, comp) == [i \in 0..(n - 1) |-> Metric(bnd[i], comp[i])]

\* ------------------------------------------------------------------------
\* lco_solver.py: schedule() -- the model that is handed to the solver
\* ------------------------------------------------------------------------
RECURSIVE SumSeq(_)
SumSeq(s) == IF s = <<>> THEN 0 ELSE Head(s) + SumSeq(Tail(s))

\* the slot indices listed for observation i, in list order (with repeats)
StartList(i) == [j \in DOMAIN start_slot_idx[i] |-> start_slot_idx[i][j].timeslot_idx]

\* a builder that gives an observation without candidates a variable on slot 0
Keys_DefaultSlot(i) ==
    IF start_slot_idx[i] = <<>>
    THEN {0}
    ELSE {start_slot_idx[i][j].timeslot_idx : j \in DOMAIN start_slot_idx[i]}

\* the keys of the dict y[i]: one variable per distinct listed slot index
Keys(i) == {start_slot_idx[i][j].timeslot_idx : j \in DOMAIN start_slot_idx[i]}

ObsIdx == 0..(num_obs - 1)

\* enumerated_timeslots: the indices of the grid
GridIdx == 0..(Cardinality(Resource) * num_timeslots_per_site - 1)

\* mutant of ConstraintSlots: the occupancy window is one slot too long
ConstraintSlots_OneMore(i) == IntDiv(obs_time[i], timeslot_length) + 1

\* the number of slots the occupancy test of constraint type 2 gives a start
\* of observation i: ceil(int(obs_time / timeslot_length))
ConstraintSlots(i) == IntDiv(obs_time[i], timeslot_length)

\* the number of slots the decoder fills for a start of observation i:
\* int(ceil(obs_time / timeslot_length))
DecoderSlots(i) == Ceil(obs_time[i], timeslot_length)

\* mutant of ConstraintType1: the bound is 2
ConstraintType1_AtMostTwo(yy, i) ==
    SumSeq([j \in DOMAIN StartList(i) |-> yy[i][StartList(i)[j]]]) <= 2

\* constraint type 1 for observation i: sum(y[i][k] for k in list) <= 1
ConstraintType1(yy, i) ==
    SumSeq([j \in DOMAIN StartList(i) |-> yy[i][StartList(i)[j]]]) <= 1

\* the terms observation i adds to the expression of time slot t
Type2Terms(yy, i, t) ==
    SumSeq([j \in DOMAIN StartList(i) |->
              LET s == StartList(i)[j]
              IN  IF s <= t /\ t < s + ConstraintSlots(i) THEN yy[i][s] ELSE 0])

RECURSIVE SumObs(_, _)
SumObs(f, n) == IF n = 0 THEN 0 ELSE f[n - 1] + SumObs(f, n - 1)

\* mutant of ConstraintType2: the inequality is turned around
ConstraintType2_AtLeastOne(yy, t) ==
    SumObs([i \in ObsIdx |-> Type2Terms(yy, i, t)], num_obs) >= 1

\* constraint type 2 for time slot t: expression <= 1
ConstraintType2(yy, t) ==
    SumObs([i \in ObsIdx |-> Type2Terms(yy, i, t)], num_obs) <= 1

\* every constraint added to the solver
Feasible(yy) ==
    /\ \A i \in ObsIdx : ConstraintType1(yy, i)
    /\ \A t \in GridIdx : ConstraintType2(yy, t)

\* solver.py / gurobi_solver.py: the number of slots their constraint type 2
\* gives a start of observation i: int(ceil(observation_length / TIMESLOT_LENGTH)),
\* obs.needed_timeslots
VariantSlots(i) == Ceil(obs_time[i], timeslot_length)

\* solver.py / gurobi_solver.py: the terms observation i adds to the
\* expression of time slot t
VariantType2Terms(yy, i, t) ==
    SumSeq([j \in DOMAIN StartList(i) |->
              LET s == StartList(i)[j]
              IN  IF s <= t /\ t < s + VariantSlots(i) THEN yy[i][s] ELSE 0])

\* solver.py / gurobi_solver.py: constraint type 2 for time slot t
VariantConstraintType2(yy, t) ==
    SumObs([i \in ObsIdx |-> VariantType2Terms(yy, i, t)], num_obs) <= 1

\* solver.py / gurobi_solver.py: every constraint added to the solver; their
\* constraint type 1 is that of lco_solver.py
VariantFeasible(yy) ==
    /\ \A i \in ObsIdx : ConstraintType1(yy, i)
    /\ \A t \in GridIdx : VariantConstraintType2(yy, t)

\* mutant of Objective: the priority is left out of the terms
Objective_Unweighted(yy, prio) ==
    SumObs([i \in ObsIdx |->
              SumSeq([j \in DOMAIN StartList(i) |-> yy[i][StartList(i)[j]]])],
           num_obs)

\* the objective function: sum of priority[i] * y[i][k] over the lists
Objective(yy, prio) ==
    SumObs([i \in ObsIdx |->
              prio[i] * SumSeq([j \in DOMAIN StartList(i) |-> yy[i][StartList(i)[j]]])],
           num_obs)

\* ------------------------------------------------------------------------
\* lco_solver.py: schedule() -- solver.Solve().  The solver is a black box
\* that returns an assignment of the variables that satisfies every added
\* constraint and maximizes the objective.
\* ------------------------------------------------------------------------
\* the decision variables y[i][k]
DecisionVars == UNION {{<<i, k>> : k \in Keys(i)} : i \in ObsIdx}

ZeroAssignment == [i \in ObsIdx |-> [k \in Keys(i) |-> 0]]

Before(v, w) == v[1] < w[1] \/ (v[1] = w[1] /\ v[2] <= w[2])

\* setting variable v to 1 in a feasible assignment leaves it feasible: only
\* the constraints that mention v can become violated
StaysFeasible(y1, v) ==
    /\ ConstraintType1(y1, v[1])
    /\ \A t \in GridIdx :
          (v[2] <= t /\ t < v[2] + ConstraintSlots(v[1])) => ConstraintType2(y1, t)

\* every feasible completion of yy over the pending variables.  A variable
\* is set to 1 only if that leaves the constraints satisfied: all constraints
\* are upper bounds on sums of variables, so a violated one stays violated.
RECURSIVE FeasibleFrom(_, _)
FeasibleFrom(pending, yy) ==
    IF pending = {} THEN {yy}
    ELSE LET v  == CHOOSE v \in pending : \A w \in pending : Before(v, w)
             y1 == [yy EXCEPT ![v[1]][v[2]] = 1]
         IN  FeasibleFrom(pending \ {v}, yy)
                \cup (IF StaysFeasible(y1, v) THEN FeasibleFrom(pending \ {v}, y1) ELSE {})

FeasibleAssignments ==
    IF Feasible(ZeroAssignment) THEN FeasibleFrom(DecisionVars, ZeroAssignment) ELSE {}

OptimalAssignments(prio) ==
    LET F    == FeasibleAssignments
        objs == {Objective(yy, prio) : yy \in F}
        best == CHOOSE m \in objs : \A o \in objs : o <= m
    IN  {yy \in F : Objective(yy, prio) = best}

\* ------------------------------------------------------------------------
\* lco_solver.py: schedule() -- decoding
\* ------------------------------------------------------------------------
EmptySchedule == [k \in {} |-> 0]

\* final_schedule[k] = i for every k in ks
Write(fs, ks, i) == [k \in (DOMAIN fs) \cup ks |-> IF k \in ks THEN i ELSE fs[k]]

\* the body of the two loops for time slot t and observation i
DecodeStep(fs, yy, t, i) ==
    IF t \in Keys(i) /\ yy[i][t] = 1
    THEN Write(fs, {t + d : d \in 0..(DecoderSlots(i) - 1)}, i)
    ELSE fs

\* for timeslot_idx in range(...): for obs_idx in range(num_obs): ...
RECURSIVE DecodeFrom(_, _, _)
DecodeFrom(k, fs, yy) ==
    IF k >= Cardinality(GridIdx) * num_obs THEN fs
    ELSE DecodeFrom(k + 1, DecodeStep(fs, yy, k \div num_obs, k % num_obs), yy)

Decode(yy) == DecodeFrom(0, EmptySchedule, yy)

\* ------------------------------------------------------------------------
\* examples.py: the observations of example1 .. example6
\* ------------------------------------------------------------------------
Obs(b, slots, t) == [band |-> b, slots |-> slots, obs_time |-> t]

Slots(idxs) == [j \in DOMAIN idxs |-> TS1(idxs[j])]

example1 ==
    << Obs("3", Slots(<<0, 1, 2, 5, 6, 9>>), 300),
       Obs("2", Slots(<<0, 3, 8>>), 900),
       Obs("3", Slots(<<1, 3, 4, 8, 10>>), 600),
       Obs("1", Slots(<<0, 3, 6, 9, 11>>), 300),
       Obs("2", Slots(<<1, 3, 7, 9>>), 900),
       Obs("1", Slots(<<3, 5, 6, 8, 10>>), 600) >>

example2 ==
    << Obs("2", Slots(<<0, 7, 9>>), 800),
       Obs("1", Slots(<<0, 2, 4>>), 600),
       Obs("1", Slots(<<3>>), 900),
       Obs("3", Slots(<<2, 5, 6, 10>>), 300),
       Obs("3", Slots(<<1, 3, 5, 6, 10>>), 300) >>

example3 ==
    << Obs("1", Slots(<<0, 1, 3, 6, 7, 8, 9>>), 900),
       Obs("2", Slots(<<1, 3, 7, 8>>), 900),
       Obs("2", Slots(<<1, 2, 3, 4, 6, 8, 9, 10>>), 600),
       Obs("1", Slots(<<0, 2, 6, 7, 8>>), 1200),
       Obs("3", Slots(<<0, 1, 2, 3, 4, 5, 6, 7, 8, 9, 10, 11>>), 300),
       Obs("3", Slots(<<0, 1, 2, 3, 4, 5, 6, 7, 8, 9, 10, 11>>), 300) >>

example4 ==
    << Obs("1", Slots(<<0, 7, 10>>), 600),
       Obs("2", Slots(<<3, 9>>), 900),
       Obs("3", Slots(<<0, 1, 2, 3, 4, 6, 7, 8, 9, 10>>), 600),
       Obs("1", Slots(<<0, 7, 10>>), 600),
       Obs("2", Slots(<<0, 3, 4, 7, 9, 10, 11>>), 300),
       Obs("2", Slots(<<0, 7, 10>>), 600) >>

example5 ==
    << Obs("3", <<TS(0, 2), TS(2, 4), TS(4, 8), TS(6, 1), TS(8, 1), TS(10, 1)>>, 600),
       Obs("2", <<TS(0, 4), TS(2, 8), TS(4, 4), TS(6, 1), TS(8, 1), TS(10, 1)>>, 600),
       Obs("1", <<TS(0, 8), TS(2, 4), TS(4, 2), TS(6, 1), TS(8, 1), TS(10, 1)>>, 600),
       Obs("2", <<TS(0, 2), TS(3, 2), TS(6, 4), TS(9, 8)>>, 900),
       Obs("1", <<TS(0, 2), TS(3, 2), TS(6, 8), TS(9, 4)>>, 900) >>

example6 ==
    << Obs("1", Slots(<<0, 2, 4, 6, 8, 10>>), 600),
       Obs("2", Slots(<<0, 2, 4, 6, 8, 10>>), 600),
       Obs("3", Slots(<<0, 2, 4, 6, 8, 10>>), 600),
       Obs("1", Slots(<<0, 3, 6, 9>>), 900),
       Obs("2", Slots(<<0, 3, 6, 9>>), 900) >>

Examples == <<example1, example2, example3, example4, example5, example6>>

\* ------------------------------------------------------------------------
\* Inputs of the bounded model
\* ------------------------------------------------------------------------
BandChoices == {"1", "2", "4"}

ObsTimeChoices == {200, 450, 600}

\* the slot indices a caller may list: the largest grid of the model
\* add_obs arguments for the calls that pass allocated_time: required
\* durations, zero included, and allocated times omitted (None), zero,
\* negative and positive
DurationChoices == {0, 300, 600}

AllocatedChoices == {None, {0}, {-600}, {300}, {600}, {1200}}

\* TimeSlots arguments and get_time_slot indices: slot lengths, which the
\* constructor takes as they come, and indices from below the grid to beyond it
LengthChoices == {-3, 0, 3, 300}

IndexChoices == (-(2 * MaxSlotsPerSite) - 1)..(2 * MaxSlotsPerSite + 1)

\* the priority curves are compared on two observations at a time
PairSize == 2

CandIdx == 0..(Cardinality(Resource) * MaxSlotsPerSite - 1)

RECURSIVE SeqsUpTo(_, _)
SeqsUpTo(S, n) ==
    IF n = 0 THEN {<<>>}
    ELSE LET shorter == SeqsUpTo(S, n - 1)
         IN  shorter \cup {Append(q, x) : q \in {r \in shorter : Len(r) = n - 1}, x \in S}

CandidateLists == {Slots(q) : q \in SeqsUpTo(CandIdx, MaxCand)}

\* the start lists of the calls that pass allocated_time: none, or slot 0
StartChoices == {Slots(<<>>), Slots(<<0>>)}

\* ------------------------------------------------------------------------
\* State machine
\* ------------------------------------------------------------------------
NoObs ==
    /\ num_obs = 0
    /\ band = <<>>
    /\ start_slot_idx = <<>>
    /\ used_time = <<>>
    /\ allocated_time = <<>>
    /\ obs_time = <<>>
    /\ completed = <<>>
    /\ priority = <<>>

NoResult ==
    /\ y = <<>>
    /\ final_schedule = EmptySchedule
    /\ schedule_score = 0
    /\ solver_status = "none"

\* no call has been made yet
NoCall ==
    /\ error = "none"
    /\ call = [op |-> "none"]
    /\ lookup = {}
    /\ unschedulable = {}
    /\ printed = <<>>

\* TimeSlots(timeslot_length, num_timeslots_per_site); Observations()
Init ==
    /\ pc = "build"
    /\ example = 0
    /\ timeslot_length = DefaultTimeslotLength
    /\ num_timeslots_per_site \in 1..MaxSlotsPerSite
    /\ timeslots = TimeSlotsInit(timeslot_length, num_timeslots_per_site)
    /\ NoObs
    /\ NoResult
    /\ NoCall

\* TimeSlots(timeslot_length, num_timeslots_per_site) with any number of slots
\* per site, zero included; Observations()
InitAnyGrid ==
    /\ pc = "build"
    /\ example = 0
    /\ timeslot_length = DefaultTimeslotLength
    /\ num_timeslots_per_site \in 0..MaxSlotsPerSite
    /\ timeslots = TimeSlotsInit(timeslot_length, num_timeslots_per_site)
    /\ NoObs
    /\ NoResult
    /\ NoCall

\* TimeSlots(timeslot_length, num_timeslots_per_site) for any length and number
InitGrid ==
    /\ pc = "build"
    /\ example = 0
    /\ timeslot_length \in LengthChoices
    /\ num_timeslots_per_site \in 0..MaxSlotsPerSite
    /\ timeslots = TimeSlotsInit(timeslot_length, num_timeslots_per_site)
    /\ NoObs
    /\ NoResult
    /\ NoCall

\* an observation set of PairSize observations of any bands whose completions
\* run over every twentieth from 0 to 1: add_obs(band, [], c, CScale)
InitPriority ==
    /\ pc = "build"
    /\ example = 0
    /\ timeslot_length = DefaultTimeslotLength
    /\ num_timeslots_per_site = DefaultNumTimeslotsPerSite
    /\ timeslots = TimeSlotsInit(timeslot_length, num_timeslots_per_site)
    /\ num_obs = PairSize
    /\ band \in [0..(PairSize - 1) -> Bands]
    /\ start_slot_idx = [i \in 0..(PairSize - 1) |-> <<>>]
    /\ used_time = [i \in 0..(PairSize - 1) |-> 0]
    /\ allocated_time = [i \in 0..(PairSize - 1) |-> CScale]
    /\ obs_time \in [0..(PairSize - 1) -> 0..CScale]
    /\ completed = <<>>
    /\ priority = <<>>
    /\ NoResult
    /\ NoCall

\* TimeSlots(); Observations() at the head of an example
InitEx ==
    /\ pc = "build"
    /\ example \in DOMAIN Examples
    /\ timeslot_length = DefaultTimeslotLength
    /\ num_timeslots_per_site = DefaultNumTimeslotsPerSite
    /\ timeslots = TimeSlotsInit(timeslot_length, num_timeslots_per_site)
    /\ NoObs
    /\ NoResult
    /\ NoCall

\* add_obs without its assert
add_obs_NoAssert(b, slots, t, allocated) ==
    /\ band' = Append0(band, num_obs, b)
    /\ start_slot_idx' = Append0(start_slot_idx, num_obs, slots)
    /\ used_time' = Append0(used_time, num_obs, 0)
    /\ allocated_time' = Append0(allocated_time, num_obs,
                                 IF allocated = None THEN t ELSE CHOOSE a \in allocated : TRUE)
    /\ obs_time' = Append0(obs_time, num_obs, t)
    /\ num_obs' = num_obs + 1

\* Observations.add_obs(band, start_slot_idx, obs_time, allocated_time)
add_obs(b, slots, t, allocated) ==
    /\ allocated = None \/ allocated # {0}
    /\ band' = Append0(band, num_obs, b)
    /\ start_slot_idx' = Append0(start_slot_idx, num_obs, slots)
    /\ used_time' = Append0(used_time, num_obs, 0)
    /\ allocated_time' = Append0(allocated_time, num_obs,
                                 IF allocated = None THEN t ELSE CHOOSE a \in allocated : TRUE)
    /\ obs_time' = Append0(obs_time, num_obs, t)
    /\ num_obs' = num_obs + 1

\* a caller adds one observation
AddObs ==
    /\ pc = "build"
    /\ example = 0
    /\ num_obs < MaxObs
    /\ \E b \in BandChoices, slots \in CandidateLists, t \in ObsTimeChoices :
          add_obs(b, slots, t, None)
    /\ UNCHANGED <<pc, example, gridVars, completed, priority, outVars, solver_status, callVars>>

\* a caller adds one observation and may pass allocated_time; the call fails
\* on its assert when allocated_time is 0 and then nothing was appended
AddObsAllocated ==
    /\ pc = "build"
    /\ example = 0
    /\ num_obs < MaxObs
    /\ \E b \in BandChoices, slots \in StartChoices, t \in DurationChoices,
          allocated \in AllocatedChoices :
          /\ call' = [op |-> "add_obs", band |-> b, obs_time |-> t, allocated |-> allocated]
          /\ \/ /\ add_obs(b, slots, t, allocated)
                /\ error' = "none"
                /\ pc' = pc
             \/ /\ allocated = {0}
                /\ error' = "AssertionError"
                /\ pc' = "error"
                /\ UNCHANGED obsVars
    /\ UNCHANGED <<example, gridVars, completed, priority, outVars, solver_status, lookup, unschedulable, printed>>

\* observations.calculate_priority() called on the observations added so far
RecalculatePriority ==
    /\ pc = "build"
    /\ example = 0
    /\ pc' = "ready"
    /\ completed' = CompletedOf(num_obs, used_time, obs_time, allocated_time)
    /\ priority' = PriorityOf(num_obs, band, completed')
    /\ UNCHANGED <<example, gridVars, obsVars, outVars, solver_status, callVars>>

\* a caller looks a slot up: timeslots.get_time_slot(resource, index)
GetTimeSlot ==
    /\ pc = "build"
    /\ \E resource \in Resource, index \in IndexChoices :
          /\ call' = [op |-> "get_time_slot", resource |-> resource, index |-> index]
          /\ lookup' = get_time_slot(timeslots, num_timeslots_per_site, resource, index)
          /\ error' = IF lookup' = {} THEN "IndexError" ELSE "none"
    /\ pc' = "looked"
    /\ UNCHANGED <<example, gridVars, obsVars, completed, priority, outVars, solver_status, unschedulable, printed>>

\* print_schedule(timeslots, final_schedule, final_score) of lco_solver.py (and
\* of gurobi_solver.py): for each site and offset, in order, it tests
\* "ts_offset in final_schedule" and then reads final_schedule[ts_idx], a
\* KeyError that ends the call when the dict does not hold ts_idx.  A printed
\* line is kept as the set holding the observation, the empty set for None.
PrintScheduleLco ==
    /\ pc = "done"
    /\ example = 0
    /\ LET offsetIn(g) == (g % num_timeslots_per_site) \in DOMAIN final_schedule
           fails == {g \in GridIdx : offsetIn(g) /\ g \notin DOMAIN final_schedule}
           reach == {g \in GridIdx : \A f \in fails : g < f}
       IN  /\ printed' = [g \in reach |-> IF offsetIn(g) THEN {final_schedule[g]} ELSE {}]
           /\ error' = IF fails = {} THEN "none" ELSE "KeyError"
    /\ call' = [op |-> "print_schedule"]
    /\ pc' = "shown"
    /\ UNCHANGED <<example, gridVars, obsVars, completed, priority, outVars, solver_status,
                   lookup, unschedulable>>

\* an example adds its next observation
ExampleAddObs ==
    /\ pc = "build"
    /\ example # 0
    /\ num_obs < Len(Examples[example])
    /\ LET o == Examples[example][num_obs + 1]
       IN  add_obs(o.band, o.slots, o.obs_time, None)
    /\ UNCHANGED <<pc, example, gridVars, completed, priority, outVars, solver_status, callVars>>

\* observations.calculate_priority() as the examples call it
CalculatePriority ==
    /\ pc = "build"
    /\ example # 0
    /\ num_obs = Len(Examples[example])
    /\ pc' = "ready"
    /\ completed' = CompletedOf(num_obs, used_time, obs_time, allocated_time)
    /\ priority' = PriorityOf(num_obs, band, completed')
    /\ UNCHANGED <<example, gridVars, obsVars, outVars, solver_status, callVars>>

\* a schedule() that books the time of the observations it placed
schedule_BooksUsedTime ==
    /\ completed' = CompletedOf(num_obs, used_time, obs_time, allocated_time)
    /\ priority' = PriorityOf(num_obs, band, completed')
    /\ \E yy \in OptimalAssignments(priority') :
          /\ y' = yy
          /\ schedule_score' = Objective(yy, priority')
          /\ final_schedule' = Decode(yy)
    /\ solver_status' = "optimal"
    /\ used_time' = [i \in DOMAIN used_time |->
                        IF i \in {final_schedule'[k] : k \in DOMAIN final_schedule'}
                        THEN used_time[i] + obs_time[i]
                        ELSE used_time[i]]
    /\ UNCHANGED <<example, gridVars, num_obs, band, start_slot_idx, allocated_time, obs_time, callVars>>

\* the body of schedule(timeslots, observations): priorities, solve, decode
schedule ==
    /\ completed' = CompletedOf(num_obs, used_time, obs_time, allocated_time)
    /\ priority' = PriorityOf(num_obs, band, completed')
    /\ \E yy \in OptimalAssignments(priority') :
          /\ y' = yy
          /\ schedule_score' = Objective(yy, priority')
          /\ final_schedule' = Decode(yy)
    /\ solver_status' = "optimal"
    /\ UNCHANGED <<example, gridVars, obsVars, callVars>>

\* a caller runs schedule(timeslots, observations)
Schedule ==
    /\ IF example = 0 THEN pc = "build" ELSE pc = "ready"
    /\ schedule
    /\ pc' = "done"

\* the caller runs schedule() once more on the same grid and observations
Reschedule ==
    /\ pc \in {"done", "again"}
    /\ example = 0
    /\ schedule
    /\ pc' = "again"

\* print_schedule(timeslots, observations, final_schedule, final_score) of
\* common.py on the dict that schedule() returned: the loop over the grid reads
\* final_schedule[ts_idx], a KeyError on a slot the dict does not hold; the
\* unschedulable list is built with "o not in final_schedule", which on a dict
\* tests its keys
PrintSchedule ==
    /\ pc \in {"done", "again"}
    /\ example = 0
    /\ IF \E ts_idx \in GridIdx : ts_idx \notin DOMAIN final_schedule
       THEN /\ error' = "KeyError"
            /\ unschedulable' = {}
       ELSE /\ error' = "none"
            /\ unschedulable' = {o \in ObsIdx : o \notin DOMAIN final_schedule}
    /\ call' = [op |-> "print_schedule"]
    /\ pc' = "printed"
    /\ UNCHANGED <<example, gridVars, obsVars, completed, priority, outVars, solver_status, lookup, printed>>

\* schedule() when solver.Solve() stops at its limit: the solver hands back the
\* best assignment it found, which is feasible and need not be optimal; the
\* status Solve() returns is dropped and the same pair is returned
ScheduleTimeout ==
    /\ pc = "build"
    /\ example = 0
    /\ completed' = CompletedOf(num_obs, used_time, obs_time, allocated_time)
    /\ priority' = PriorityOf(num_obs, band, completed')
    /\ \E yy \in FeasibleAssignments :
          /\ y' = yy
          /\ schedule_score' = Objective(yy, priority')
          /\ final_schedule' = Decode(yy)
    /\ solver_status' = "timeout"
    /\ pc' = "done"
    /\ UNCHANGED <<example, gridVars, obsVars, callVars>>

\* what schedule() returns to its caller
Returned == <<final_schedule, schedule_score>>

Next == AddObs \/ Schedule

NextEx == ExampleAddObs \/ CalculatePriority \/ Schedule

Spec == Init /\ [][Next]_vars

SpecEx == InitEx /\ [][NextEx]_vars

\* the same calls on a grid that may have no slot at all
SpecAnyGrid == InitAnyGrid /\ [][Next]_vars

NextRun == AddObs \/ Schedule \/ Reschedule \/ PrintSchedule

\* a caller that builds, schedules, may schedule again, and prints
SpecRun == Init /\ [][NextRun]_vars

NextObs == AddObsAllocated \/ RecalculatePriority

\* a caller that builds an observation set and has its priorities computed
SpecObs == Init /\ [][NextObs]_vars

NextGrid == GetTimeSlot

\* a caller that builds a grid and looks a slot up
SpecGrid == InitGrid /\ [][NextGrid]_vars

NextPriority == RecalculatePriority

\* calculate_priority() on two observations of any bands and completions
SpecPriority == InitPriority /\ [][NextPriority]_vars

NextShow == AddObs \/ Schedule \/ PrintScheduleLco

\* a caller that builds, schedules and prints with lco_solver.py
SpecShow == Init /\ [][NextShow]_vars

NextSolve == AddObs \/ Schedule \/ ScheduleTimeout

\* the solver may also stop at its limit
SpecSolve == Init /\ [][NextSolve]_vars

\* ------------------------------------------------------------------------
\* Reading a schedule
\* ------------------------------------------------------------------------
Range(f) == {f[k] : k \in DOMAIN f}

\* the slots of a schedule that hold observation i
SlotsOf(fs, i) == {k \in DOMAIN fs : fs[k] = i}

\* the block of slots a start of observation i at s needs
Block(i, s) == {s + d : d \in 0..(Ceil(obs_time[i], timeslot_length) - 1)}

\* the starts an assignment chooses
Chosen(yy) == {v \in DecisionVars : yy[v[1]][v[2]] = 1}

SumPriorities == SumObs(priority, num_obs)

\* the quality of the start of observation i as read off a schedule: the
\* metric score listed for the first slot that holds i
QualityIn(fs, i) ==
    LET first == CHOOSE k \in SlotsOf(fs, i) : \A l \in SlotsOf(fs, i) : k <= l
        listed == {j \in DOMAIN start_slot_idx[i] : start_slot_idx[i][j].timeslot_idx = first}
    IN  IF listed = {} THEN DefaultMetricScore
        ELSE start_slot_idx[i][CHOOSE j \in listed : TRUE].metric_score

\* the score recomputed from a schedule alone, in units of 1/(PScale*MScale)
Recomputed(fs) ==
    SumObs([i \in ObsIdx |-> IF i \in Range(fs) THEN priority[i] * QualityIn(fs, i) ELSE 0],
           num_obs)

\* ------------------------------------------------------------------------
\* Properties
\* ------------------------------------------------------------------------

\* C1 (no-overlap): for every assignment that satisfies the constraints of
\* schedule() and starts observations only at slots of the grid, the decoded
\* schedule holds each chosen observation in exactly the block of
\* ceil(obs_time / timeslot_length) slots from its chosen start, and the
\* blocks of two different observations share no slot.
C1_NoOverlap ==
    pc = "done" =>
        \A yy \in FeasibleAssignments :
            (\A v \in Chosen(yy) : v[2] \in GridIdx) =>
                /\ \A v \in Chosen(yy) : SlotsOf(Decode(yy), v[1]) = Block(v[1], v[2])
                /\ \A v, w \in Chosen(yy) :
                      v[1] # w[1] => Block(v[1], v[2]) \cap Block(w[1], w[2]) = {}

\* C2 (single start): in every assignment that satisfies the constraints of
\* schedule(), and so in the one the solver returns, each observation has at
\* most one start slot whose variable is 1.
C2_SingleStart ==
    pc = "done" =>
        \A yy \in FeasibleAssignments \cup {y} :
            \A i \in ObsIdx : Cardinality({s \in Keys(i) : yy[i][s] = 1}) <= 1

\* C2 witness: the solver started an observation that lists two different
\* start slots.
C2_Witness ==
    /\ pc = "done"
    /\ \E i \in ObsIdx : Cardinality(Keys(i)) >= 2 /\ \E s \in Keys(i) : y[i][s] = 1

\* C3 (needed_slots consistency): for every observation of positive length,
\* constraint type 2 and the decoder use the same number of slots, which is
\* ceil(obs_time / timeslot_length) and at least 1.
C3_NeededSlotsConsistent ==
    \A i \in ObsIdx :
        obs_time[i] > 0 =>
            /\ ConstraintSlots(i) = DecoderSlots(i)
            /\ ConstraintSlots(i) = Ceil(obs_time[i], timeslot_length)
            /\ ConstraintSlots(i) >= 1

\* C4 (runs stay on the grid): no assignment that satisfies the constraints
\* chooses a start whose block runs past the last slot of the grid, and the
\* decoded schedule has no slot index outside the grid.
C4_RunsStayOnGrid ==
    pc = "done" =>
        \A yy \in FeasibleAssignments :
            /\ \A v \in Chosen(yy) : Block(v[1], v[2]) \subseteq GridIdx
            /\ DOMAIN Decode(yy) \subseteq GridIdx

\* C5 (objective): the value schedule() maximizes and returns is the sum of
\* priority(i) * metric_score(s) * y[i][s] over the listed start candidates.
C5_ObjectiveWithQuality ==
    pc = "done" =>
        schedule_score * MScale =
            SumObs([i \in ObsIdx |->
                      priority[i] * SumSeq([j \in DOMAIN start_slot_idx[i] |->
                          start_slot_idx[i][j].metric_score
                              * y[i][start_slot_idx[i][j].timeslot_idx]])],
                   num_obs)

\* C6 (objective correctness): the returned Score equals the sum of
\* priority(i) * quality(start of i) over exactly the observations whose
\* index appears in the returned schedule.
C6_ScoreMatchesSchedule ==
    pc = "done" => schedule_score * MScale = Recomputed(final_schedule)

\* C7 (exact fit, example1): every optimal assignment schedules all six
\* observations, fills every slot of the grid, and scores the sum of the six
\* priorities.
C7_ExactFit ==
    (pc = "done" /\ example = 1) =>
        /\ Range(final_schedule) = ObsIdx
        /\ DOMAIN final_schedule = GridIdx
        /\ schedule_score = SumPriorities

\* C7 witness: example1 has been scheduled.
C7_Witness == pc = "done" /\ example = 1 /\ num_obs = 6 /\ Chosen(y) # {}

\* C8 (unschedulable observation, example4): every optimal assignment
\* schedules the observations 0, 1, 3, 4, 5 and leaves observation 2 out.
C8_Unschedulable ==
    (pc = "done" /\ example = 4) => Range(final_schedule) = {0, 1, 3, 4, 5}

\* C8 witness: example4 has been scheduled.
C8_Witness == pc = "done" /\ example = 4 /\ num_obs = 6 /\ Chosen(y) # {}

\* C9 (over-subscription): when the observations need more slots than the
\* grid has and every priority is positive, some observation is missing from
\* the decoded schedule and the Score is below the sum of all priorities.
C9_OverSubscribed ==
    (/\ pc = "done"
     /\ SumObs([i \in ObsIdx |-> Ceil(obs_time[i], timeslot_length)], num_obs)
            > Cardinality(GridIdx)
     /\ \A i \in ObsIdx : priority[i] > 0)
    => /\ \E i \in ObsIdx : i \notin Range(final_schedule)
       /\ schedule_score < SumPriorities

\* C10 (the empty schedule is feasible): whatever the grid and the
\* observations, the assignment that starts nothing satisfies every
\* constraint of types 1 and 2.
C10_EmptyFeasible == Feasible(ZeroAssignment)

\* C10 witness: the solver returned the all-zero assignment for a model that
\* has decision variables and a non-empty grid.
C10_Witness ==
    /\ pc = "done"
    /\ DecisionVars # {}
    /\ GridIdx # {}
    /\ y = ZeroAssignment

\* the priorities schedule() would compute for the observations as they stand
CurrentPriority ==
    PriorityOf(num_obs, band, CompletedOf(num_obs, used_time, obs_time, allocated_time))

\* the Score of an optimal solve of the model as it stands
OptimalScores ==
    {Objective(yy, CurrentPriority) : yy \in OptimalAssignments(CurrentPriority)}

\* an assignment without the variables of the observation added last
WithoutObs(yy, last) == [i \in (DOMAIN yy) \ {last} |-> yy[i]]

\* C11: when the solver did not end optimal, what schedule() returns differs
\* from everything an optimal solve of the same model could return, so the
\* caller can tell the two apart.
C11_StatusSurfaced ==
    (pc = "done" /\ final_schedule # EmptySchedule /\ solver_status # "optimal") =>
        ~ \E yy \in OptimalAssignments(priority) :
              <<Decode(yy), Objective(yy, priority)>> = Returned

\* C12: schedule() on no observation, or on a grid with zero slots per site,
\* returns the empty schedule with Score 0.
C12_DegenerateModel ==
    (pc = "done" /\ (num_obs = 0 \/ num_timeslots_per_site = 0)) =>
        (final_schedule = EmptySchedule /\ schedule_score = 0)

\* C13: adding an observation with an empty start-candidate list creates no
\* variable for it and leaves the feasible assignments of the other
\* observations and the optimal Score as they were; an observation without
\* candidates has no slot in the schedule that schedule() returns.
C13_EmptyCandidateSet ==
    [][ /\ \A new \in {num_obs} :
              (num_obs' = num_obs + 1 /\ start_slot_idx'[new] = <<>>) =>
                  /\ Keys(new)' = {}
                  /\ {WithoutObs(yy, new) : yy \in FeasibleAssignments'} = FeasibleAssignments
                  /\ \A yy \in FeasibleAssignments' : new \notin Range(Decode(yy)')
                  /\ OptimalScores' = OptimalScores
        /\ pc' = "done" =>
              \A i \in ObsIdx' :
                  start_slot_idx'[i] = <<>> =>
                      (DOMAIN y'[i] = {} /\ i \notin Range(final_schedule'))
      ]_vars

\* an observation without candidates was scheduled around: another one has slots
C13_Witness ==
    /\ pc = "done"
    /\ \E i, j \in ObsIdx :
          /\ start_slot_idx[i] = <<>>
          /\ j \in Range(final_schedule)

\* C14: schedule() changes no observation and no slot; a second call on the
\* same grid and observations computes the same completions and priorities
\* and returns the same Score.
C14_Idempotent ==
    [][ pc' \in {"done", "again"} =>
          /\ UNCHANGED <<obsVars, gridVars>>
          /\ pc' = "again" =>
                /\ completed' = completed
                /\ priority' = priority
                /\ schedule_score' = schedule_score
      ]_vars

\* schedule() was called again and had a choice between optimal schedules
C14_Witness ==
    /\ pc = "again"
    /\ schedule_score > 0
    /\ \E yy \in OptimalAssignments(priority) : Decode(yy) # final_schedule

\* C15: when print_schedule has printed a returned schedule, the observations
\* it reported as unschedulable are exactly those with no slot in the schedule.
C15_UnscheduledReported ==
    (pc = "printed" /\ error = "none") =>
        unschedulable = {o \in ObsIdx : o \notin Range(final_schedule)}

\* C16: an add_obs call with allocated_time 0 fails and leaves num_obs, bands,
\* start lists and the three durations as they were; a call that omits
\* allocated_time appends exactly one observation, with allocated_time equal
\* to obs_time and used_time 0.
C16_AddObsPrecondition ==
    [][ (pc = "build" /\ pc' \in {"build", "error"}) =>
          /\ call'.allocated = {0} =>
                (error' = "AssertionError" /\ UNCHANGED obsVars)
          /\ call'.allocated = None =>
                /\ error' = "none"
                /\ num_obs' = num_obs + 1
                /\ DOMAIN allocated_time' = 0..num_obs
                /\ allocated_time'[num_obs] = call'.obs_time
                /\ obs_time'[num_obs] = call'.obs_time
                /\ used_time'[num_obs] = 0
                /\ band'[num_obs] = call'.band
                /\ \A i \in ObsIdx :
                      /\ band'[i] = band[i]
                      /\ start_slot_idx'[i] = start_slot_idx[i]
                      /\ used_time'[i] = used_time[i]
                      /\ allocated_time'[i] = allocated_time[i]
                      /\ obs_time'[i] = obs_time[i]
      ]_vars

\* a call with allocated_time 0 failed after a call that omitted it succeeded
C16_Witness ==
    /\ pc = "error"
    /\ error = "AssertionError"
    /\ call.allocated = {0}
    /\ num_obs = 1
    /\ allocated_time[0] = obs_time[0]
    /\ obs_time[0] > 0

\* C17: every stored observation has an allocated time different from 0.
C17_AllocatedNonZero ==
    \A i \in ObsIdx : allocated_time[i] # 0

\* C18: after calculate_priority the completion of every observation with a
\* non-zero allocated time is (used + required) / allocated brought into [0, 1].
C18_CompletionClamped ==
    pc = "ready" =>
        \A i \in ObsIdx :
            allocated_time[i] # 0 =>
                LET t == ((used_time[i] + obs_time[i]) * CScale) \div allocated_time[i]
                IN  completed[i] = IF t < 0 THEN 0 ELSE IF t > CScale THEN CScale ELSE t

\* C19: a get_time_slot call with an index outside [0, num_timeslots_per_site)
\* ends in an IndexError, and no call returns a slot of another resource.
C19_LookupBounds ==
    pc = "looked" =>
        /\ call.index \notin 0..(num_timeslots_per_site - 1) => error = "IndexError"
        /\ \A slot \in lookup : slot.resource = call.resource

\* C20: the grid has num_resources * num_timeslots_per_site slots, the slot at
\* r * num_timeslots_per_site + k has resource r and starts at
\* k * timeslot_length, two slots of one resource do not overlap, and
\* get_time_slot(r, k) with k inside the site returns that slot.
C20_GridLayout ==
    /\ DOMAIN timeslots = 0..(Cardinality(Resource) * num_timeslots_per_site - 1)
    /\ \A r \in Resource, k \in 0..(num_timeslots_per_site - 1) :
          timeslots[r * num_timeslots_per_site + k] = TimeSlot(r, k * timeslot_length)
    /\ \A g, h \in DOMAIN timeslots :
          (g # h /\ timeslots[g].resource = timeslots[h].resource) =>
              \/ timeslots[g].start_time + timeslot_length <= timeslots[h].start_time
              \/ timeslots[h].start_time + timeslot_length <= timeslots[g].start_time
    /\ (pc = "looked" /\ call.index \in 0..(num_timeslots_per_site - 1)) =>
          /\ error = "none"
          /\ lookup = {TimeSlot(call.resource, call.index * timeslot_length)}

\* the last slot of the second resource was looked up on a grid of several slots
C20_Witness ==
    /\ pc = "looked"
    /\ num_timeslots_per_site >= 2
    /\ call.resource = 1
    /\ call.index = num_timeslots_per_site - 1
    /\ lookup # {}

\* the pairs (higher band, lower band)
HigherBand ==
    {<<"1", "2">>, <<"1", "3">>, <<"1", "4">>, <<"2", "3">>, <<"2", "4">>, <<"3", "4">>}

C22_Monotone ==
    pc = "ready" =>
        \A i, j \in ObsIdx :
            (/\ band[i] = band[j]
             /\ completed[i] \in 0..CScale
             /\ completed[j] \in 0..CScale
             /\ completed[i] <= completed[j]) =>
                priority[i] <= priority[j]

\* two band-1 observations on either side of the breakpoint
C22_Witness ==
    /\ pc = "ready"
    /\ band[0] = "1" /\ completed[0] = xbBreak - 1
    /\ band[1] = "1" /\ completed[1] = xbBreak
    /\ priority[0] < priority[1]

\* C23: the priority computed at the breakpoint, which the linear piece
\* gives, is the value of the quadratic piece there, and the priority computed
\* at completion 1 is the value of the linear piece there.
C23_ContinuousAtBreak ==
    pc = "ready" =>
        \A i \in ObsIdx :
            /\ completed[i] = params[band[i]].xb =>
                  /\ priority[i] = Linear(band[i], completed[i])
                  /\ priority[i] = Quadratic(band[i], completed[i])
            /\ completed[i] = CScale =>
                  /\ priority[i] = AtOne(band[i])
                  /\ priority[i] = Linear(band[i], CScale)

\* one observation sits on the breakpoint and one is complete
C23_Witness ==
    /\ pc = "ready"
    /\ band[0] = "1" /\ completed[0] = xbBreak /\ priority[0] > 0
    /\ band[1] = "2" /\ completed[1] = CScale /\ priority[1] > 0

\* what the priority of observation i, whose completion lies on the first
\* piece, tends to as that completion goes to 0: the priority less the term
\* m1 * completed ** 2 that vanishes with it
RightLimitAtZero(i) == priority[i] - params[band[i]].m1 * completed[i] * completed[i]

\* the offsets 15.8, 5.4 and 0.2 of the bands 1, 2 and 3, in units of 1/PScale
OffsetAtZero ==
    [b \in Bands |-> CASE b = "1" -> 158 * (PScale \div 10)
                       [] b = "2" -> 54 * (PScale \div 10)
                       [] b = "3" -> 2 * (PScale \div 10)
                       [] b = "4" -> 0]

\* C24 as stated: the priority is 0 at completion 0 and tends to 0 as the
\* completion goes to 0 from above.
C24_ContinuousAtZero ==
    pc = "ready" =>
        \A i \in ObsIdx :
            /\ completed[i] = 0 => priority[i] = 0
            /\ completed[i] \in 1..(params[band[i]].xb - 1) => RightLimitAtZero(i) = 0

\* C24 amended: the priority is 0 at completion 0 and tends to the offset b1
\* of the band (15.8, 5.4, 0.2 for the bands 1, 2, 3 and 0 for band 4) as the
\* completion goes to 0 from above.
C24_JumpAtZero ==
    pc = "ready" =>
        \A i \in ObsIdx :
            /\ completed[i] = 0 => priority[i] = 0
            /\ completed[i] \in 1..(params[band[i]].xb - 1) =>
                  RightLimitAtZero(i) = OffsetAtZero[band[i]]

\* a band-1 observation at completion 0 beside one at the lowest completion
C24_Witness ==
    /\ pc = "ready"
    /\ band[0] = "1" /\ completed[0] = 0 /\ priority[0] = 0
    /\ band[1] = "1" /\ completed[1] = 1 /\ priority[1] > 0

\* C25: the assignment schedule() of lco_solver.py returns satisfies the
\* constraints that schedule() of solver.py / gurobi_solver.py builds for the
\* same grid and observations.
C25_VariantsAgree ==
    pc = "done" => VariantFeasible(y)

\* the start candidates of observation i with their weights, as a set
CandidateSet(i) == {start_slot_idx[i][j] : j \in DOMAIN start_slot_idx[i]}

\* the assignment starts observation i
Started(yy, i) == \E k \in DOMAIN yy[i] : yy[i][k] = 1

\* C26: when two observations have the same duration and the same start
\* candidates with the same weights and the assignment schedule() returns
\* starts exactly one of them, the one started has a priority no lower than
\* the other's.
C26_HigherBandWins ==
    pc = "done" =>
        \A i, j \in ObsIdx :
            (/\ i # j
             /\ obs_time[i] = obs_time[j]
             /\ CandidateSet(i) = CandidateSet(j)
             /\ Started(y, i)
             /\ ~ Started(y, j)) =>
                priority[i] >= priority[j]

\* C27: every start the returned assignment chooses leaves the run of its
\* observation on one resource: (s mod slots per site) + needed slots is at
\* most the number of slots per site.
C27_RunsOnOneResource ==
    pc = "done" =>
        \A i \in ObsIdx :
            \A s \in DOMAIN y[i] :
                y[i][s] = 1 =>
                    (s % num_timeslots_per_site) + DecoderSlots(i) <= num_timeslots_per_site

\* the assignment that starts observation i at slot s and nothing else
OnlyStart(i, s) == [ZeroAssignment EXCEPT ![i][s] = 1]

\* C28: every listed start of every observation, listed once or twice, can
\* be selected on its own, and selecting it adds the priority of the
\* observation to the objective once.
C28_DuplicatesHarmless ==
    pc = "done" =>
        \A i \in ObsIdx :
            \A s \in Keys(i) :
                /\ ConstraintType1(OnlyStart(i, s), i)
                /\ Objective(OnlyStart(i, s), priority) = priority[i]

\* C29: print_schedule of lco_solver.py ends without error and its line for
\* each global slot shows the observation the schedule holds there, or None
\* exactly when the schedule holds none.
C29_SchedulePrinted ==
    pc = "shown" =>
        /\ error = "none"
        /\ DOMAIN printed = GridIdx
        /\ \A g \in GridIdx :
              printed[g] = IF g \in DOMAIN final_schedule THEN {final_schedule[g]} ELSE {}

====
